---- MODULE Spec2Model ----
(***************************************************************************)
(* One invocation of the httpie command-line client of src/main.rs:        *)
(* argument parsing, one GET or POST request, and the rendering of the     *)
(* response on standard output.  Text is modelled as sequences: a          *)
(* command-line token is a sequence of characters, a URL, a header value   *)
(* and a body are sequences of lexemes.                                    *)
(***************************************************************************)
EXTENDS Integers, Sequences, FiniteSets, TLC

\* Bounds of the model.
MaxLen == 2
MaxBody == 2
MaxHeaders == 1
MaxTokLen == 5

VARIABLES
    pc,         \* position of main: start, parsed, awaitResp, awaitBody, exited
                \* (kv, kvDone when parse_kv_pair runs on its own)
    subcmd,     \* "get" or "post"
    url,        \* the <url> argument as typed
    body,       \* the key=value arguments as typed
    opts,       \* the parsed Opts
    requests,   \* HTTP requests handed to the client, in order
    resp,       \* the Response returned by send()
    ct,         \* result of get_content_type
    text,       \* the body returned by resp.text()
    stdout,     \* lines printed so far
    exitCode,   \* exit code of the process once pc = "exited"
    failure,    \* why the run ended early: none, parse, send, panic, body
    ppCalled,   \* jsonxf::pretty_print has been called
    kvTok,      \* token handed to parse_kv_pair on its own
    kvRes       \* its result

vars == <<pc, subcmd, url, body, opts, requests, resp, ct, text, stdout,
          exitCode, failure, ppCalled, kvTok, kvRes>>

----------------------------------------------------------------------------
\* Strings

\* every sequence over chars of length at most n
RECURSIVE Strings(_, _)
Strings(chars, n) ==
    IF n = 0 THEN {<<>>}
    ELSE LET shorter == Strings(chars, n - 1)
         IN  shorter \cup {Append(s, c) : s \in {t \in shorter : Len(t) = n - 1}, c \in chars}

ArgChars == {"a", "="}
KvChars == {"a", "b", "c", "="}

HasEq(s) == \E i \in 1..Len(s) : s[i] = "="

FirstEq(s) == CHOOSE i \in 1..Len(s) : s[i] = "=" /\ \A j \in 1..(i - 1) : s[j] # "="

\* str::split("="): the pieces between every occurrence of '='
RECURSIVE split(_)
split(s) ==
    IF ~HasEq(s) THEN <<s>>
    ELSE <<SubSeq(s, 1, FirstEq(s) - 1)>> \o split(SubSeq(s, FirstEq(s) + 1, Len(s)))

NoPair == [ok |-> FALSE, k |-> <<>>, v |-> <<>>]

\* KvPair::from_str: the first two items of the split iterator
from_str(s) ==
    LET parts == split(s)
    IN  IF Len(parts) >= 2
        THEN [ok |-> TRUE, k |-> parts[1], v |-> parts[2]]
        ELSE NoPair

parse_kv_pair(s) == from_str(s)

----------------------------------------------------------------------------
\* URLs

Schemes == {"http", "https"}
Hosts == {"example.com"}

Urls == { <<"http", "://", "example.com">>,
          <<"https", "://", "example.com", "/status/200">>,
          <<"not-a-url">>,
          <<"example.com", "/status/200">>,
          <<"http", "://">>,
          <<"://", "example.com">>,
          <<>> }

\* Url::parse accepts an absolute URL: a scheme, "://" and a host
UrlParse(s) == Len(s) >= 3 /\ s[1] \in Schemes /\ s[2] = "://" /\ s[3] \in Hosts

parse_url_any(s) == [ok |-> TRUE, val |-> s]

parse_url(s) == IF UrlParse(s) THEN [ok |-> TRUE, val |-> s] ELSE [ok |-> FALSE, val |-> <<>>]

----------------------------------------------------------------------------
\* Requests

EmptyMap == [k \in {} |-> <<>>]

insert_keep(m, k, v) == [x \in (DOMAIN m) \cup {k} |-> IF x \in DOMAIN m THEN m[x] ELSE v]

\* HashMap::insert
insert(m, k, v) == [x \in (DOMAIN m) \cup {k} |-> IF x = k THEN v ELSE m[x]]

\* the loop of post over args.body
RECURSIVE body_map(_)
body_map(pairs) ==
    IF pairs = <<>> THEN EmptyMap
    ELSE LET last == pairs[Len(pairs)]
         IN  insert(body_map(SubSeq(pairs, 1, Len(pairs) - 1)), last.k, last.v)

\* RequestBuilder::json: the entries of the JSON object
to_json(m) == {[key |-> k, value |-> m[k]] : k \in DOMAIN m}

----------------------------------------------------------------------------
\* Responses

Statuses == {"200 OK", "404 Not Found", "500 Internal Server Error"}

CONTENT_TYPE == "content-type"

ContentTypeValues ==
    { <<"application", "/", "json">>,
      <<"application", "/", "json", ";", "charset=utf-8">>,
      <<"text", "/", "html">>,
      <<"garbage">>,
      <<"\\xff">> }

HeaderFields ==
    {[name |-> CONTENT_TYPE, value |-> v] : v \in ContentTypeValues}
        \cup {[name |-> "server", value |-> <<"nginx">>]}

Responses == [status : Statuses, headers : Strings(HeaderFields, MaxHeaders)]

NoResp == [status |-> "", headers |-> <<>>]

Bodies == { <<"{", "\"x\"", ":", "1", "}">>,
            <<"{", "broken">>,
            <<"hello">> }

Scalars == {"1", "\"x\""}

\* the body is a JSON document
WellFormed(b) ==
    \/ Len(b) = 1 /\ b[1] \in Scalars
    \/ b = <<"{", "}">>
    \/ Len(b) = 5 /\ b[1] = "{" /\ b[2] = "\"x\"" /\ b[3] = ":" /\ b[4] \in Scalars /\ b[5] = "}"

\* HeaderValue::to_str fails on bytes outside visible ASCII
to_str_ok(v) == \A i \in 1..Len(v) : v[i] # "\\xff"

NoneMime == [some |-> FALSE, type |-> "", subtype |-> "", params |-> <<>>]

APPLICATION_JSON == [some |-> TRUE, type |-> "application", subtype |-> "json", params |-> <<>>]

\* the parameters of a media type: what follows each ";"
RECURSIVE mime_params(_)
mime_params(v) ==
    IF Len(v) < 2 THEN <<>>
    ELSE <<v[2]>> \o mime_params(SubSeq(v, 3, Len(v)))

RECURSIVE params_ok(_)
params_ok(v) ==
    \/ v = <<>>
    \/ Len(v) >= 2 /\ v[1] = ";" /\ v[2] \notin {";", "/"} /\ params_ok(SubSeq(v, 3, Len(v)))

\* str::parse::<Mime>: type "/" subtype then ";"-separated parameters
mime_ok(v) ==
    /\ Len(v) >= 3
    /\ v[1] \notin {";", "/"}
    /\ v[2] = "/"
    /\ v[3] \notin {";", "/"}
    /\ params_ok(SubSeq(v, 4, Len(v)))

mime_parse(v) ==
    [some |-> TRUE, type |-> v[1], subtype |-> v[3], params |-> mime_params(SubSeq(v, 4, Len(v)))]

\* Mime == Mime compares type, subtype and parameters
mime_eq(a, b) == a.type = b.type /\ a.subtype = b.subtype /\ a.params = b.params

HasHeader(r, n) == \E i \in 1..Len(r.headers) : r.headers[i].name = n

\* HeaderMap::get: the first value of the header
header_get(r, n) ==
    r.headers[CHOOSE i \in 1..Len(r.headers) :
                  r.headers[i].name = n /\ \A j \in 1..(i - 1) : r.headers[j].name # n].value

\* get_content_type: None without the header, a panic on either unwrap
get_content_type(r) ==
    IF ~HasHeader(r, CONTENT_TYPE) THEN [panic |-> FALSE, val |-> NoneMime]
    ELSE LET v == header_get(r, CONTENT_TYPE)
         IN  IF to_str_ok(v) /\ mime_ok(v)
             THEN [panic |-> FALSE, val |-> mime_parse(v)]
             ELSE [panic |-> TRUE, val |-> NoneMime]

----------------------------------------------------------------------------
\* Rendering

Line(kind, color, t) == [kind |-> kind, color |-> color, text |-> t]

print_nothing(r) == <<>>

print_response_line(r) == <<Line("line", "blue", <<"HTTP/1.1", r.status>>)>>

print_response_headers(r) ==
    [i \in 1..Len(r.headers) |->
        Line("header", "green", <<r.headers[i].name, ": ">> \o r.headers[i].value)]

\* jsonxf's formatter: a new line and indentation inside brackets, a space
\* after a colon; it copies every other lexeme and validates nothing
Indent(depth) == [i \in 1..depth |-> "  "]

RECURSIVE format(_, _, _)
format(b, depth, first) ==
    IF b = <<>> THEN <<>>
    ELSE LET c == b[1]
             rest == SubSeq(b, 2, Len(b))
             lead == IF first THEN <<"\n">> \o Indent(depth) ELSE <<>>
         IN  CASE c \in {"{", "["} -> lead \o <<c>> \o format(rest, depth + 1, TRUE)
               [] c \in {"}", "]"} ->
                    LET d == IF depth > 0 THEN depth - 1 ELSE 0
                    IN  (IF first THEN <<>> ELSE <<"\n">> \o Indent(d)) \o <<c>>
                            \o format(rest, d, FALSE)
               [] c = "," -> <<c, "\n">> \o Indent(depth) \o format(rest, depth, FALSE)
               [] c = ":" -> <<c, " ">> \o format(rest, depth, FALSE)
               [] OTHER -> lead \o <<c>> \o format(rest, depth, FALSE)

\* jsonxf::pretty_print: Ok with the formatted text, or Err
pretty_print(b, err) ==
    IF err THEN [ok |-> FALSE, val |-> <<>>] ELSE [ok |-> TRUE, val |-> format(b, 0, FALSE)]

calls_pretty_print(m) == m.some /\ mime_eq(m, APPLICATION_JSON)

print_body(m, b, err) ==
    IF calls_pretty_print(m) /\ pretty_print(b, err).ok
    THEN <<Line("body", "cyan", pretty_print(b, err).val)>>
    ELSE <<Line("body", "none", b)>>

print_head_swapped(r) == print_response_headers(r) \o print_response_line(r)

\* print_response up to the await of the body
print_head(r) == print_response_line(r) \o print_response_headers(r)

----------------------------------------------------------------------------
\* One run of main

NoOpts == [url |-> <<>>, body |-> <<>>]

ArgTokens == Strings(ArgChars, MaxLen)

Init ==
    /\ pc = "start"
    /\ subcmd \in {"get", "post"}
    /\ url \in Urls
    /\ body \in Strings(ArgTokens, MaxBody)
    /\ subcmd = "get" => body = <<>>
    /\ opts = NoOpts
    /\ requests = <<>>
    /\ resp = NoResp
    /\ ct = NoneMime
    /\ text = <<>>
    /\ stdout = <<>>
    /\ exitCode = 0
    /\ failure = "none"
    /\ ppCalled = FALSE
    /\ kvTok = <<>>
    /\ kvRes = NoPair

Exit(code, why) ==
    /\ pc' = "exited"
    /\ exitCode' = code
    /\ failure' = why

\* Opts::parse succeeds
ParseOk ==
    /\ pc = "start"
    /\ parse_url(url).ok
    /\ \A i \in 1..Len(body) : parse_kv_pair(body[i]).ok
    /\ opts' = [url |-> parse_url(url).val,
                body |-> [i \in 1..Len(body) |->
                            [k |-> parse_kv_pair(body[i]).k, v |-> parse_kv_pair(body[i]).v]]]
    /\ pc' = "parsed"
    /\ UNCHANGED <<subcmd, url, body, requests, resp, ct, text, stdout, exitCode,
                   failure, ppCalled, kvTok, kvRes>>

\* Opts::parse reports the error and exits
ParseFail ==
    /\ pc = "start"
    /\ ~(parse_url(url).ok /\ \A i \in 1..Len(body) : parse_kv_pair(body[i]).ok)
    /\ Exit(2, "parse")
    /\ UNCHANGED <<subcmd, url, body, opts, requests, resp, ct, text, stdout,
                   ppCalled, kvTok, kvRes>>

\* get, up to the await of send()
GetSend ==
    /\ pc = "parsed"
    /\ subcmd = "get"
    /\ requests' = Append(requests, [method |-> "GET", url |-> opts.url, json |-> {}])
    /\ pc' = "awaitResp"
    /\ UNCHANGED <<subcmd, url, body, opts, resp, ct, text, stdout, exitCode,
                   failure, ppCalled, kvTok, kvRes>>

\* post, up to the await of send()
PostSend ==
    /\ pc = "parsed"
    /\ subcmd = "post"
    /\ requests' = Append(requests, [method |-> "POST", url |-> opts.url,
                                     json |-> to_json(body_map(opts.body))])
    /\ pc' = "awaitResp"
    /\ UNCHANGED <<subcmd, url, body, opts, resp, ct, text, stdout, exitCode,
                   failure, ppCalled, kvTok, kvRes>>

SendErrorRetry ==
    /\ pc = "awaitResp"
    /\ Len(requests) < 2
    /\ requests' = Append(requests, requests[1])
    /\ UNCHANGED <<pc, subcmd, url, body, opts, resp, ct, text, stdout, exitCode,
                   failure, ppCalled, kvTok, kvRes>>

\* send() fails: the ? operator returns the error from main
SendError ==
    /\ pc = "awaitResp"
    /\ Exit(1, "send")
    /\ UNCHANGED <<subcmd, url, body, opts, requests, resp, ct, text, stdout,
                   ppCalled, kvTok, kvRes>>

\* send() returns a response: print_response up to the await of text()
RecvResponse(r) ==
    /\ pc = "awaitResp"
    /\ resp' = r
    /\ stdout' = stdout \o print_head(r)
    /\ IF get_content_type(r).panic
       THEN /\ Exit(101, "panic")
            /\ ct' = NoneMime
       ELSE /\ pc' = "awaitBody"
            /\ ct' = get_content_type(r).val
            /\ UNCHANGED <<exitCode, failure>>
    /\ UNCHANGED <<subcmd, url, body, opts, requests, text, ppCalled, kvTok, kvRes>>

\* text() returns the body: print_body, then main returns Ok
RecvBody(b, err) ==
    /\ pc = "awaitBody"
    /\ err => ~WellFormed(b)
    /\ text' = b
    /\ ppCalled' = calls_pretty_print(ct)
    /\ stdout' = stdout \o print_body(ct, b, err)
    /\ Exit(0, "none")
    /\ UNCHANGED <<subcmd, url, body, opts, requests, resp, ct, kvTok, kvRes>>

\* text() fails
BodyError ==
    /\ pc = "awaitBody"
    /\ Exit(1, "body")
    /\ UNCHANGED <<subcmd, url, body, opts, requests, resp, ct, text, stdout,
                   ppCalled, kvTok, kvRes>>

Next ==
    \/ ParseOk
    \/ ParseFail
    \/ GetSend
    \/ PostSend
    \/ SendError
    \/ \E r \in Responses : RecvResponse(r)
    \/ \E b \in Bodies, err \in BOOLEAN : RecvBody(b, err)
    \/ BodyError

Spec == Init /\ [][Next]_vars

----------------------------------------------------------------------------
\* parse_kv_pair on its own

KvTokens == Strings(KvChars, MaxTokLen)

InitKv ==
    /\ pc = "kv"
    /\ subcmd = "post"
    /\ url = <<>>
    /\ body = <<>>
    /\ opts = NoOpts
    /\ requests = <<>>
    /\ resp = NoResp
    /\ ct = NoneMime
    /\ text = <<>>
    /\ stdout = <<>>
    /\ exitCode = 0
    /\ failure = "none"
    /\ ppCalled = FALSE
    /\ kvTok \in KvTokens
    /\ kvRes = NoPair

ParseKv ==
    /\ pc = "kv"
    /\ kvRes' = parse_kv_pair(kvTok)
    /\ pc' = "kvDone"
    /\ UNCHANGED <<subcmd, url, body, opts, requests, resp, ct, text, stdout,
                   exitCode, failure, ppCalled, kvTok>>

SpecKv == InitKv /\ [][ParseKv]_vars

----------------------------------------------------------------------------
\* Properties

ArgsValid == UrlParse(url) /\ \A i \in 1..Len(body) : HasEq(body[i])

Received == resp # NoResp

Completed == pc = "exited" /\ failure = "none"

\* the lexemes of the content-type header start with application/json
JsonMediaType ==
    /\ HasHeader(resp, CONTENT_TYPE)
    /\ Len(header_get(resp, CONTENT_TYPE)) >= 3
    /\ SubSeq(header_get(resp, CONTENT_TYPE), 1, 3) = <<"application", "/", "json">>

\* the content-type header is exactly application/json
JsonExactly ==
    /\ HasHeader(resp, CONTENT_TYPE)
    /\ header_get(resp, CONTENT_TYPE) = <<"application", "/", "json">>

BodyLines == {i \in 1..Len(stdout) : stdout[i].kind = "body"}

StatusLines == {i \in 1..Len(stdout) : stdout[i].kind = "line"}

\* C1: once parse_kv_pair has run on a token, a token with an '=' gave a
\* pair whose key is the text before the first '=' and whose value is all
\* the text after that first '=', and a token without '=' gave an error.
C1_SplitAtFirstEq ==
    pc = "kvDone" =>
        IF HasEq(kvTok)
        THEN /\ kvRes.ok
             /\ kvRes.k = SubSeq(kvTok, 1, FirstEq(kvTok) - 1)
             /\ kvRes.v = SubSeq(kvTok, FirstEq(kvTok) + 1, Len(kvTok))
        ELSE ~kvRes.ok

\* C2: a run whose URL is not an absolute URL, or one of whose body tokens
\* has no '=', never gets past argument parsing: it sends no request, and
\* when it has exited its exit code is not zero; no request is sent by any
\* run before its arguments are parsed.
C2_InvalidArgsNoRequest ==
    /\ ~ArgsValid =>
          /\ requests = <<>>
          /\ pc \in {"start", "exited"}
          /\ pc = "exited" => exitCode # 0
    /\ pc = "start" => requests = <<>>

C2_Witness ==
    /\ pc = "exited"
    /\ failure = "parse"
    /\ exitCode # 0
    /\ \/ ~UrlParse(url) /\ \A i \in 1..Len(body) : HasEq(body[i])
       \/ UrlParse(url) /\ \E i \in 1..Len(body) : ~HasEq(body[i])

\* C3: whenever a run has printed the body of a response whose content-type
\* has the media type application/json, with or without parameters,
\* jsonxf::pretty_print was called on the body.
C3_JsonIgnoresParameters ==
    (Completed /\ JsonMediaType) => ppCalled

\* C4 as stated: standard output is empty until the body has been received,
\* so a run that fails while reading the body has printed nothing.
C4_NoOutputBeforeBody ==
    stdout # <<>> => Completed

\* C4 amended: standard output is empty until send() has returned a
\* response; from then until the body arrives it holds the status line and
\* one line per header and no body line, and that is all a run has printed
\* when reading the body fails.
C4_NoOutputBeforeResponse ==
    /\ pc \in {"start", "parsed", "awaitResp"} => stdout = <<>>
    /\ failure \in {"parse", "send"} => stdout = <<>>
    /\ (pc = "awaitBody" \/ failure = "body") =>
          /\ Len(stdout) = 1 + Len(resp.headers)
          /\ StatusLines = {1}
          /\ BodyLines = {}
    /\ BodyLines # {} => Completed

C4_Witness ==
    /\ failure = "body"
    /\ Len(stdout) >= 2
    /\ stdout[1].kind = "line"

\* C5: a run that received a response whose content-type is absent or is
\* anything other than application/json is not aborted by the renderer, and
\* once it has read the body its last line of output is the raw body.
C5_OtherContentTypeRaw ==
    (Received /\ ~JsonExactly) =>
        /\ failure # "panic"
        /\ Completed =>
              /\ exitCode = 0
              /\ stdout[Len(stdout)].kind = "body"
              /\ stdout[Len(stdout)].text = text

\* C6: a completed run whose response was application/json printed exactly
\* one body line and exited zero; the line is the raw body when the body is
\* not well-formed JSON and the pretty-printed body when it is.
C6_MalformedJsonRaw ==
    (Completed /\ JsonExactly) =>
        /\ exitCode = 0
        /\ Cardinality(BodyLines) = 1
        /\ stdout[Len(stdout)].text =
              IF WellFormed(text) THEN format(text, 0, FALSE) ELSE text

\* C7: the JSON object of a POST request has one entry per distinct key of
\* the parsed pairs and nothing else, and the value of an entry is the value
\* of the last pair with that key; no pairs give the empty object.
C7_LastWriteWins ==
    \A n \in 1..Len(requests) :
        requests[n].method = "POST" =>
            LET json == requests[n].json
                pairs == opts.body
                at(k) == {i \in 1..Len(pairs) : pairs[i].k = k}
            IN  /\ {e.key : e \in json} = {pairs[i].k : i \in 1..Len(pairs)}
                /\ Cardinality(json) = Cardinality({pairs[i].k : i \in 1..Len(pairs)})
                /\ \A e \in json :
                      \E i \in at(e.key) :
                          /\ \A j \in at(e.key) : j <= i
                          /\ e.value = pairs[i].v
                /\ pairs = <<>> => json = {}

C7_Witness ==
    /\ Len(requests) = 1
    /\ requests[1].method = "POST"
    /\ \E i, j \in 1..Len(opts.body) :
          /\ i < j
          /\ opts.body[i].k = opts.body[j].k
          /\ opts.body[i].v # opts.body[j].v

\* C8: a run that has exited has exit code zero exactly when neither
\* argument parsing nor the transport (send or body read) failed; with a
\* 4xx or 5xx response whose body was read the exit code is zero.
C8_ExitZeroIffNoFailure ==
    pc = "exited" =>
        /\ exitCode = 0 <=> (ArgsValid /\ failure \notin {"parse", "send", "body"})
        /\ (Received /\ resp.status # "200 OK" /\ failure # "body") => exitCode = 0

====
